---- MODULE Spec2Model ----
\* Moonfire NVR user management handlers (`/api/users/*`), modelled from
\* server/src/web/users.rs, and the `login` subcommand, modelled from
\* server/src/cmds/login.rs.  Every request handler is a sequence of steps of
\* one task; tasks share the database behind `self.db.lock()`.
EXTENDS Integers, FiniteSets, Sequences, TLC

VARIABLES
    users_by_id,  \* the account store: user id -> user record
    lock,         \* task holding the database mutex, NoTask when it is free
    pc,           \* pc[t]: position of task t inside its handler
    req,          \* req[t]: the request task t is serving
    resp,         \* resp[t]: the response task t returned
    change,       \* change[t]: the UserChange task t has built and not applied
    touched,      \* touched[t]: task t has written to the account store
    sessions,     \* the session store: session id -> session record
    files,        \* the file system: path -> contents of the file
    lpc,          \* position of the login command inside run
    args,         \* the Args the login command was started with
    locals,       \* run's local variables uid, permissions, flags and sid
    status,       \* what run returned and printed
    at_issuance   \* the account store as it was when run looked the user up

vars == <<users_by_id, lock, pc, req, resp, change, touched,
          sessions, files, lpc, args, locals, status, at_issuance>>

----------------------------------------------------------------------------
\* Bounds of the model.

\* User ids range over 1..MaxId.
MaxId == 3
\* A request body names at most MaxFields user fields in all (those of the
\* precondition plus those of the update, or those of the user to create).
MaxFields == 3
\* The login command is given at most MaxFlags session flags.
MaxFlags == 2
\* A cookie domain has at most MaxLen characters.
MaxLen == 2

----------------------------------------------------------------------------
\* Values.  Option<T> is a set with at most one element.

None == {}
Some(v) == {v}
Option(S) == {None} \cup {Some(v) : v \in S}
Unwrap(o) == CHOOSE v \in o : TRUE

Ids == 1..MaxId
Tasks == {"t1", "t2"}
NoTask == "none"
Names == {"alice", "bob", "carol"}
Passwords == {"p", "q"}
Preferences == {"{}", "dark"}
Tokens == {"c1", "c2"}
Permissions == [admin_users : BOOLEAN]

\* json::UserSubset as users.rs reads it.  `extra` stands for a field that is
\* added to UserSubset and forgotten in users.rs, the case the handlers'
\* safety valves are there for; UserSubset as it is has no such field.
FieldNames == {"disabled", "username", "preferences", "password", "permissions", "extra"}
UserSubset ==
    [disabled : Option(BOOLEAN), username : Option(Names),
     preferences : Option(Preferences), password : Option(Option(Passwords)),
     permissions : Option(Permissions), extra : {None}]
\* UserSubset once a field has been added to it.
LaterSubset ==
    [disabled : Option(BOOLEAN), username : Option(Names),
     preferences : Option(Preferences), password : Option(Option(Passwords)),
     permissions : Option(Permissions), extra : Option({"x"})]
DefaultSubset ==
    [disabled |-> None, username |-> None, preferences |-> None,
     password |-> None, permissions |-> None, extra |-> None]
Present(s) == {f \in FieldNames : s[f] /= None}
\* Option::take: the field is left None.
Take(s, f) == [s EXCEPT ![f] = None]

\* The password hash the store keeps for a password.
Hash(p) == [scrypt |-> p]

\* db::User::check_password: an absent password matches an absent hash only.
check_password(user, p) ==
    IF p = None THEN user.password_hash = None
    ELSE user.password_hash = Some(Hash(Unwrap(p)))

\* db::User::change: a change that keeps everything.
UserChange(id, user) ==
    [id |-> Some(id), username |-> user.username, set_password_hash |-> None,
     preferences |-> user.preferences, disabled |-> user.disabled,
     permissions |-> user.permissions]
\* db::UserChange::add_user.
add_user(username) ==
    [id |-> None, username |-> username, set_password_hash |-> None,
     preferences |-> "{}", disabled |-> FALSE,
     permissions |-> [admin_users |-> FALSE]]
NoChange == add_user("alice")

set_password(c, p) == [c EXCEPT !.set_password_hash = Some(Some(Hash(p)))]
clear_password(c) == [c EXCEPT !.set_password_hash = Some(None)]

\* Responses.
Ok(body) == [kind |-> "Ok", msg |-> "", body |-> body]
Err(kind, msg) == [kind |-> kind, msg |-> msg, body |-> {}]
NoResp == [kind |-> "", msg |-> "", body |-> {}]
IsErr(r) == r.kind \notin {"", "Ok"}

----------------------------------------------------------------------------
\* The account store behind the lock (db crate).

MaxOf(S) == CHOOSE m \in S : \A n \in S : n <= m
NextId(users) == IF DOMAIN users = {} THEN 1 ELSE MaxOf(DOMAIN users) + 1

\* The user record a change leaves behind; `old` is the record before it.
Changed(old, c) ==
    [username |-> c.username,
     password_hash |->
         IF c.set_password_hash = None THEN old.password_hash
         ELSE Unwrap(c.set_password_hash),
     preferences |-> c.preferences, disabled |-> c.disabled,
     permissions |-> c.permissions]
NewUser == [password_hash |-> None]

\* Database::apply_user_change: insert (no id) or update (id), all fields at
\* once; a username another user holds is refused and nothing is written.
apply_user_change(users, c) ==
    LET target == IF c.id = None THEN NextId(users) ELSE Unwrap(c.id)
        clash == \E i \in DOMAIN users : i /= target /\ users[i].username = c.username
        old == IF target \in DOMAIN users THEN users[target] ELSE NewUser
    IN  IF clash
        THEN [ok |-> FALSE, users |-> users, id |-> target]
        ELSE [ok |-> TRUE, id |-> target,
              users |-> [i \in DOMAIN users \cup {target} |->
                            IF i = target THEN Changed(old, c) ELSE users[i]]]

\* Database::delete_user.
delete_user(users, id) ==
    IF id \in DOMAIN users
    THEN [ok |-> TRUE, users |-> [i \in DOMAIN users \ {id} |-> users[i]]]
    ELSE [ok |-> FALSE, users |-> users]

\* json::UserSubset::from(&db::User): the projection a read returns; the
\* password hash is never part of it.
Projection(user) ==
    [username |-> Some(user.username), disabled |-> Some(user.disabled),
     preferences |-> Some(user.preferences),
     password |-> Some(IF user.password_hash = None THEN None ELSE Some("(censored)")),
     permissions |-> Some(user.permissions)]

----------------------------------------------------------------------------
\* Checks of the handlers.

\* require_same_or_admin letting any authenticated user through.
require_any_user_or_admin(caller, id) ==
    ~(caller.user = None /\ ~caller.permissions.admin_users)
\* require_same_or_admin: TRUE when the caller may proceed.
require_same_or_admin(caller, id) ==
    ~(caller.user /= Some(id) /\ ~caller.permissions.admin_users)

\* require_csrf_if_session checking only a token that is supplied.
require_csrf_if_supplied(caller, csrf) ==
    caller.session = None \/ csrf = None \/ csrf = caller.session
\* require_csrf_if_session: TRUE when the caller may proceed.
require_csrf_if_session(caller, csrf) ==
    caller.session = None \/ (csrf /= None /\ csrf = caller.session)

\* patch_user, lines 149-151: a password change without the previous password.
PasswordOf(o) == IF o = None THEN None ELSE Unwrap(o).password
\* PasswordChangeUnproven with the rule dropped.
PasswordRuleDropped(r) == FALSE
\* PasswordChangeUnproven with the precondition forgotten: every password
\* change counts as unproven.
PasswordChangeAlways(r) == PasswordOf(r.update) /= None
PasswordChangeUnproven(r) ==
    PasswordOf(r.update) /= None /\ PasswordOf(r.precondition) = None

\* Mismatch with the password arm lost: a supplied password is never verified.
MismatchUnverified(user, pre, f) ==
    /\ pre[f] /= None
    /\ CASE f = "disabled" -> Unwrap(pre.disabled) /= user.disabled
         [] f = "username" -> Unwrap(pre.username) /= user.username
         [] f = "preferences" -> Unwrap(pre.preferences) /= user.preferences
         [] f = "password" -> FALSE
         [] f = "permissions" -> Unwrap(pre.permissions) /= user.permissions

\* patch_user, lines 159-188: the precondition phase, fields in source order.
Mismatch(user, pre, f) ==
    /\ pre[f] /= None
    /\ CASE f = "disabled" -> Unwrap(pre.disabled) /= user.disabled
         [] f = "username" -> Unwrap(pre.username) /= user.username
         [] f = "preferences" -> Unwrap(pre.preferences) /= user.preferences
         [] f = "password" -> ~check_password(user, Unwrap(pre.password))
         [] f = "permissions" -> Unwrap(pre.permissions) /= user.permissions
\* PreconditionOrder with the fields in alphabetical order.
PreconditionAlphabetical == <<"disabled", "password", "permissions", "preferences", "username">>
PreconditionOrder == <<"disabled", "username", "preferences", "password", "permissions">>
RECURSIVE CheckFields(_, _, _)
CheckFields(user, pre, i) ==
    IF i > Len(PreconditionOrder)
    THEN IF pre /= DefaultSubset
         THEN Err("Unimplemented", "preconditions not supported")
         ELSE NoResp
    ELSE IF Mismatch(user, pre, PreconditionOrder[i])
         THEN Err("FailedPrecondition", PreconditionOrder[i])
         ELSE CheckFields(user, Take(pre, PreconditionOrder[i]), i + 1)
CheckPrecondition(user, precondition) ==
    IF precondition = None THEN NoResp
    ELSE CheckFields(user, Unwrap(precondition), 1)

\* patch_user, lines 193-200: what a caller may change on itself.
FoldSelfService(c, update) ==
    LET c1 == IF update.preferences = None THEN c
              ELSE [c EXCEPT !.preferences = Unwrap(update.preferences)]
    IN  IF update.password = None THEN c1
        ELSE IF Unwrap(update.password) = None THEN clear_password(c1)
        ELSE set_password(c1, Unwrap(Unwrap(update.password)))
TakeSelfService(update) == Take(Take(update, "preferences"), "password")

\* NeedsAdmin with the check dropped.
NeedsAdminNever(update) == FALSE
\* patch_user, line 203: anything left needs admin_users.
NeedsAdmin(update) == TakeSelfService(update) /= DefaultSubset

\* FoldAdmin giving an absent disabled flag its default.
FoldAdminDefaulting(c, update) ==
    LET c1 == IF update.disabled = None THEN [c EXCEPT !.disabled = FALSE]
              ELSE [c EXCEPT !.disabled = Unwrap(update.disabled)]
        c2 == IF update.username = None THEN c1
              ELSE [c1 EXCEPT !.username = Unwrap(update.username)]
    IN  IF update.permissions = None THEN c2
        ELSE [c2 EXCEPT !.permissions = Unwrap(update.permissions)]
\* patch_user, lines 206-214: the fields only an administrator changes.
FoldAdmin(c, update) ==
    LET c1 == IF update.disabled = None THEN c
              ELSE [c EXCEPT !.disabled = Unwrap(update.disabled)]
        c2 == IF update.username = None THEN c1
              ELSE [c1 EXCEPT !.username = Unwrap(update.username)]
    IN  IF update.permissions = None THEN c2
        ELSE [c2 EXCEPT !.permissions = Unwrap(update.permissions)]
TakeAdmin(update) == Take(Take(Take(update, "disabled"), "username"), "permissions")

\* PatchChecks with the field-level admin check moved ahead of the
\* precondition phase.
PatchChecksAdminFirst(users, r) ==
    IF r.id \notin DOMAIN users
    THEN Err("NotFound", "can't find requested user")
    ELSE IF PasswordChangeUnproven(r) /\ ~r.caller.permissions.admin_users
    THEN Err("Unauthenticated", "must supply previous password or have admin_users")
    ELSE IF ~require_csrf_if_session(r.caller, r.csrf)
    THEN Err("Unauthenticated", "csrf")
    ELSE IF r.update /= None /\ NeedsAdmin(Unwrap(r.update))
            /\ ~r.caller.permissions.admin_users
    THEN Err("Unauthenticated", "must have admin_users permission")
    ELSE CheckPrecondition(users[r.id], r.precondition)

\* patch_user, lines 146-188, run with the lock held: the response that ends
\* the request, or NoResp when the update phase is reached.
PatchChecks(users, r) ==
    IF r.id \notin DOMAIN users
    THEN Err("NotFound", "can't find requested user")
    ELSE IF PasswordChangeUnproven(r) /\ ~r.caller.permissions.admin_users
    THEN Err("Unauthenticated", "must supply previous password or have admin_users")
    ELSE IF ~require_csrf_if_session(r.caller, r.csrf)
    THEN Err("Unauthenticated", "csrf")
    ELSE CheckPrecondition(users[r.id], r.precondition)

\* PatchUpdate applying the self-service part of the change before the
\* admin check.
PatchUpdateEager(users, r) ==
    IF r.update = None
    THEN [resp |-> Ok({}), users |-> users, wrote |-> FALSE]
    ELSE LET update == Unwrap(r.update)
             c1 == FoldSelfService(UserChange(r.id, users[r.id]), update)
             early == apply_user_change(users, c1)
             applied == apply_user_change(users, FoldAdmin(c1, TakeSelfService(update)))
         IN  IF NeedsAdmin(update) /\ ~r.caller.permissions.admin_users
             THEN [resp |-> Err("Unauthenticated", "must have admin_users permission"),
                   users |-> early.users, wrote |-> FALSE]
             ELSE IF ~applied.ok
             THEN [resp |-> Err("StoreError", "apply_user_change"),
                   users |-> users, wrote |-> FALSE]
             ELSE [resp |-> Ok({}), users |-> applied.users, wrote |-> TRUE]

\* patch_user, lines 189-224: the response and the store the update phase
\* leaves behind.
PatchUpdate(users, r) ==
    IF r.update = None
    THEN [resp |-> Ok({}), users |-> users, wrote |-> FALSE]
    ELSE LET update == Unwrap(r.update)
             c1 == FoldSelfService(UserChange(r.id, users[r.id]), update)
             applied == apply_user_change(users, FoldAdmin(c1, TakeSelfService(update)))
         IN  IF NeedsAdmin(update) /\ ~r.caller.permissions.admin_users
             THEN [resp |-> Err("Unauthenticated", "must have admin_users permission"),
                   users |-> users, wrote |-> FALSE]
             ELSE IF TakeAdmin(TakeSelfService(update)) /= DefaultSubset
             THEN [resp |-> Err("Unimplemented", "updates not supported"),
                   users |-> users, wrote |-> FALSE]
             ELSE IF ~applied.ok
             THEN [resp |-> Err("StoreError", "apply_user_change"),
                   users |-> users, wrote |-> FALSE]
             ELSE [resp |-> Ok({}), users |-> applied.users, wrote |-> TRUE]

\* PostUsersBuild ignoring the fields it does not apply.
PostUsersBuildLenient(r) ==
    LET c0 == add_user(Unwrap(r.user.username))
        c1 == IF r.user.password /= None /\ Unwrap(r.user.password) /= None
              THEN set_password(c0, Unwrap(Unwrap(r.user.password))) ELSE c0
        c2 == IF r.user.preferences = None THEN c1
              ELSE [c1 EXCEPT !.preferences = Unwrap(r.user.preferences)]
        c3 == IF r.user.permissions = None THEN c2
              ELSE [c2 EXCEPT !.permissions = Unwrap(r.user.permissions)]
    IN  IF ~require_csrf_if_session(r.caller, r.csrf)
        THEN [resp |-> Err("Unauthenticated", "csrf"), change |-> NoChange]
        ELSE IF r.user.username = None
        THEN [resp |-> Err("InvalidArgument", "username must be specified"),
              change |-> NoChange]
        ELSE [resp |-> NoResp, change |-> c3]
\* post_users, lines 63-81: the response that ends the request, or NoResp and
\* the change to apply.
PostUsersBuild(r) ==
    LET c0 == add_user(Unwrap(r.user.username))
        c1 == IF r.user.password /= None /\ Unwrap(r.user.password) /= None
              THEN set_password(c0, Unwrap(Unwrap(r.user.password))) ELSE c0
        c2 == IF r.user.preferences = None THEN c1
              ELSE [c1 EXCEPT !.preferences = Unwrap(r.user.preferences)]
        c3 == IF r.user.permissions = None THEN c2
              ELSE [c2 EXCEPT !.permissions = Unwrap(r.user.permissions)]
        left == Take(Take(Take(Take(r.user, "username"), "password"),
                          "preferences"), "permissions")
    IN  IF ~require_csrf_if_session(r.caller, r.csrf)
        THEN [resp |-> Err("Unauthenticated", "csrf"), change |-> NoChange]
        ELSE IF r.user.username = None
        THEN [resp |-> Err("InvalidArgument", "username must be specified"),
              change |-> NoChange]
        ELSE IF left /= DefaultSubset
        THEN [resp |-> Err("Unimplemented", "unsupported user fields"),
              change |-> NoChange]
        ELSE [resp |-> NoResp, change |-> c3]

----------------------------------------------------------------------------
\* The store at startup: alice (1) has a password and no admin rights, bob
\* (2) is a disabled administrator without a password.
InitUsers ==
    (1 :> [username |-> "alice", password_hash |-> Some(Hash("p")),
           preferences |-> "{}", disabled |-> FALSE,
           permissions |-> [admin_users |-> FALSE]])
    @@ (2 :> [username |-> "bob", password_hash |-> None,
              preferences |-> "dark", disabled |-> TRUE,
              permissions |-> [admin_users |-> TRUE]])

----------------------------------------------------------------------------
\* Requests.

Callers ==
    {c \in [user : Option(DOMAIN InitUsers), session : Option({"c1"}),
             permissions : Permissions] :
        c.session /= None => c.user /= None}
Request(op, caller, id, csrf, precondition, update, user) ==
    [op |-> op, caller |-> caller, id |-> id, csrf |-> csrf,
     precondition |-> precondition, update |-> update, user |-> user]
Anonymous == [user |-> None, session |-> None, permissions |-> [admin_users |-> FALSE]]
NoReq == Request("", Anonymous, 1, None, None, None, DefaultSubset)

\* The bodies a request may carry: json::PutUsers {csrf, user}, json::DeleteUser
\* {csrf} and json::PostUser {csrf, precondition, update}.
Fields(o) == IF o = None THEN 0 ELSE Cardinality(Present(Unwrap(o)))
PutUsersBodies == {u \in UserSubset : Cardinality(Present(u)) <= MaxFields}
PostUserBodies ==
    {b \in Option(UserSubset) \X Option(UserSubset) :
        Fields(b[1]) + Fields(b[2]) <= MaxFields}
\* The bodies of the concurrent scenario: a create names the new user; a patch
\* is empty, updates one field, or compares and swaps one field.
OneField(u) == Cardinality(Present(u)) = 1
ConcPutUsersBodies == {u \in UserSubset : Present(u) = {"username"}}
ConcPostUserBodies ==
    {<<None, None>>}
    \cup {<<None, Some(u)>> : u \in {v \in UserSubset : OneField(v)}}
    \cup {<<Some(b[1]), Some(b[2])>> :
            b \in {c \in UserSubset \X UserSubset :
                     OneField(c[1]) /\ Present(c[1]) = Present(c[2])}}
ConcCallers ==
    {[user |-> None, session |-> None, permissions |-> [admin_users |-> TRUE]],
     [user |-> Some(1), session |-> None, permissions |-> [admin_users |-> FALSE]]}
ConcIds == {1}
\* The bodies sent while the login command runs: a create names carol; a
\* patch is empty or updates the permissions or the preferences.
LoginPutUsersBodies == {u \in UserSubset : Present(u) = {"username"} /\ u.username = Some("carol")}
LoginPostUserBodies ==
    {<<None, None>>}
    \cup {<<None, Some(u)>> :
            u \in {v \in UserSubset : Present(v) \in {{"permissions"}, {"preferences"}}}}
\* The bodies of the later schema: a create names a user and may carry one
\* more field; a patch has a precondition, or an update of one field.
LaterPutUsersBodies ==
    {u \in LaterSubset : "username" \in Present(u) /\ Cardinality(Present(u)) <= 2}
LaterPostUserBodies ==
    {<<Some(p), None>> : p \in {q \in LaterSubset : Cardinality(Present(q)) <= MaxFields}}
    \cup {<<None, Some(u)>> : u \in {v \in LaterSubset : OneField(v)}}
\* The bodies of each scenario.
LaterBodies == [csrf |-> {None}, PutUsers |-> LaterPutUsersBodies, PostUser |-> LaterPostUserBodies]
FullBodies == [csrf |-> Option(Tokens), PutUsers |-> PutUsersBodies, PostUser |-> PostUserBodies]
ConcBodies == [csrf |-> {None}, PutUsers |-> ConcPutUsersBodies, PostUser |-> ConcPostUserBodies]
LoginBodies == [csrf |-> {None}, PutUsers |-> LoginPutUsersBodies, PostUser |-> LoginPostUserBodies]
WithBody(r, csrf, precondition, update, user) ==
    Request(r.op, r.caller, r.id, csrf, precondition, update, user)

----------------------------------------------------------------------------
\* The login subcommand (cmds/login.rs).  Strings that end up in a cookie-jar
\* line are sequences of characters.

Tab == "\t"
DomainChars == {"a", "."}
Base64Chars == <<"A", "b", "+", "/">>
\* The domains of at most MaxLen characters.
RECURSIVE StringsUpTo(_, _)
StringsUpTo(chars, n) ==
    IF n = 0 THEN {<<>>}
    ELSE LET shorter == StringsUpTo(chars, n - 1)
         IN  shorter \cup {Append(w, c) : w \in shorter, c \in chars}
Domains == StringsUpTo(DomainChars, MaxLen) \ {<<>>}
\* The file system: `old` exists before the command runs, `jar` does not.
Paths == {"jar", "old"}
InitFiles == [p \in {"old"} |-> <<>>]

\* db::auth::SessionFlag and the bit each flag stands for.
SessionFlag == {"HttpOnly", "Secure", "SameSite", "SameSiteStrict"}
FlagBit(f) ==
    CASE f = "HttpOnly" -> 1
      [] f = "Secure" -> 2
      [] f = "SameSite" -> 4
      [] f = "SameSiteStrict" -> 8
FlagLists == UNION {[1..n -> SessionFlag] : n \in 0..MaxFlags}
RECURSIVE BitOr(_, _)
BitOr(a, b) ==
    IF a = 0 /\ b = 0 THEN 0
    ELSE (IF a % 2 = 1 \/ b % 2 = 1 THEN 1 ELSE 0) + 2 * BitOr(a \div 2, b \div 2)
RECURSIVE BitAnd(_, _)
BitAnd(a, b) ==
    IF a = 0 \/ b = 0 THEN 0
    ELSE (IF a % 2 = 1 /\ b % 2 = 1 THEN 1 ELSE 0) + 2 * BitAnd(a \div 2, b \div 2)

\* FoldFlags adding the bits up instead of or-ing them.
RECURSIVE AddFlags(_, _)
AddFlags(flags, fs) ==
    IF fs = <<>> THEN flags
    ELSE AddFlags(flags + FlagBit(Head(fs)), Tail(fs))
\* run, lines 84-87: `flags |= *f as i32` for every requested flag.
RECURSIVE FoldFlags(_, _)
FoldFlags(flags, fs) ==
    IF fs = <<>> THEN flags
    ELSE FoldFlags(BitOr(flags, FlagBit(Head(fs))), Tail(fs))

\* Args, as bpaf hands them to run (db_dir left out).
Args(username, permissions, domain, curl_cookie_jar, session_flags) ==
    [username |-> username, permissions |-> permissions, domain |-> domain,
     curl_cookie_jar |-> curl_cookie_jar, session_flags |-> session_flags]
NoArgs == Args("", None, None, None, <<>>)
\* The usernames a run is started for: two users of the store and a stranger.
LoginNames == {"alice", "bob", "mallory"}
LoginDomains == {<<"a">>}

\* Database::get_user: the id of the user called `username`, if there is one.
get_user(users, username) == {i \in DOMAIN users : users[i].username = username}

\* The session store at startup: one session of bob's.
InitSessions ==
    (1 :> [user_id |-> 2, permissions |-> [admin_users |-> TRUE],
           flags |-> 15, domain |-> None])
\* A session id the store has never handed out.
NextSid(ss) == IF DOMAIN ss = {} THEN 1 ELSE MaxOf(DOMAIN ss) + 1
\* Database::make_session: a new session record under a fresh id.
make_session(ss, uid, domain, flags, permissions) ==
    LET sid == NextSid(ss)
    IN  [sid |-> sid,
         sessions |-> ss @@ (sid :> [user_id |-> uid, permissions |-> permissions,
                                     flags |-> flags, domain |-> domain])]
\* base64::encode_config_slice, lines 96-98: the id in a fixed number of
\* digits of the alphabet, without padding.
Encode(sid) == <<Base64Chars[((sid \div 4) % 4) + 1], Base64Chars[(sid % 4) + 1]>>

\* curl_cookie with the Secure column taken from the SameSite bit.
curl_cookie_samesite(cookie, flags, domain) ==
    (IF BitAnd(flags, FlagBit("HttpOnly")) /= 0
     THEN <<"#", "H", "t", "t", "p", "O", "n", "l", "y", "_">> ELSE <<>>)
    \o domain \o <<Tab>> \o <<"F", "A", "L", "S", "E">>
    \o <<Tab>> \o <<"/">>
    \o <<Tab>> \o (IF BitAnd(flags, FlagBit("SameSite")) /= 0
                   THEN <<"T", "R", "U", "E">> ELSE <<"F", "A", "L", "S", "E">>)
    \o <<Tab>> \o <<"9", "2", "2", "3", "3", "7", "2", "0", "3", "6", "8", "5",
                    "4", "7", "7", "5", "8", "0", "7">>
    \o <<Tab>> \o <<"s">>
    \o <<Tab>> \o cookie
\* curl_cookie, lines 127-145.
curl_cookie(cookie, flags, domain) ==
    (IF BitAnd(flags, FlagBit("HttpOnly")) /= 0
     THEN <<"#", "H", "t", "t", "p", "O", "n", "l", "y", "_">> ELSE <<>>)
    \o domain \o <<Tab>> \o <<"F", "A", "L", "S", "E">>
    \o <<Tab>> \o <<"/">>
    \o <<Tab>> \o (IF BitAnd(flags, FlagBit("Secure")) /= 0
                   THEN <<"T", "R", "U", "E">> ELSE <<"F", "A", "L", "S", "E">>)
    \o <<Tab>> \o <<"9", "2", "2", "3", "3", "7", "2", "0", "3", "6", "8", "5",
                    "4", "7", "7", "5", "8", "0", "7">>
    \o <<Tab>> \o <<"s">>
    \o <<Tab>> \o cookie

NoLocals ==
    [uid |-> 0, permissions |-> [admin_users |-> FALSE], flags |-> 0, sid |-> 0,
     encoded |-> <<>>]
NoStatus == [kind |-> "", msg |-> "", stdout |-> <<>>]
LoginTask == "login"

----------------------------------------------------------------------------
Init ==
    /\ users_by_id = InitUsers
    /\ lock = NoTask
    /\ pc = [t \in Tasks |-> "idle"]
    /\ req = [t \in Tasks |-> NoReq]
    /\ resp = [t \in Tasks |-> NoResp]
    /\ change = [t \in Tasks |-> NoChange]
    /\ touched = [t \in Tasks |-> FALSE]
    /\ sessions = InitSessions
    /\ files = InitFiles
    /\ lpc = "idle"
    /\ args = NoArgs
    /\ locals = NoLocals
    /\ status = NoStatus
    /\ at_issuance = <<>>

\* A lock that excludes nobody.
LockAlwaysFree == TRUE
\* Mutex::lock: the database lock can be taken.
LockFree == lock = NoTask

\* What the login command owns; no request handler touches it.
loginLocal == <<files, lpc, args, locals, status, at_issuance>>

\* The handler of task t returns r; the lock guard, if t holds it, is dropped.
Return(t, r) ==
    /\ pc' = [pc EXCEPT ![t] = "done"]
    /\ resp' = [resp EXCEPT ![t] = r]
    /\ lock' = IF lock = t THEN NoTask ELSE lock
    /\ UNCHANGED loginLocal
Goto(t, l) == pc' = [pc EXCEPT ![t] = l] /\ UNCHANGED <<resp, loginLocal>>

\* Commit with sessions that follow their user's permissions.
CommitRederiving(users) ==
    /\ users_by_id' = users
    /\ sessions' = [s \in DOMAIN sessions |->
                        IF sessions[s].user_id \in DOMAIN users
                        THEN [sessions[s] EXCEPT
                                !.permissions = users[sessions[s].user_id].permissions]
                        ELSE sessions[s]]
\* apply_user_change and delete_user as the handlers call them: the user
\* records are replaced, the session store is not written to.
Commit(users) ==
    /\ users_by_id' = users
    /\ sessions' = sessions
At(t, op, l) == pc[t] = l /\ req[t].op = op

\* into_json_body and parse_json_body: the body is read and parsed, before
\* the lock is taken; a body that does not parse ends the request.  `bodies`
\* names the bodies of the scenario.
ParseBody(t, op, next, bodies) ==
    /\ At(t, op, "body")
    /\ \/ Return(t, Err("InvalidArgument", "bad request body")) /\ UNCHANGED req
       \/ /\ Goto(t, next) /\ UNCHANGED lock
          /\ \E k \in bodies.csrf :
                \/ /\ op = "POST"
                   /\ \E u \in bodies.PutUsers :
                        req' = [req EXCEPT ![t] = WithBody(@, k, None, None, u)]
                \/ /\ op = "DELETE"
                   /\ req' = [req EXCEPT ![t] = WithBody(@, k, None, None, DefaultSubset)]
                \/ /\ op = "PATCH"
                   /\ \E b \in bodies.PostUser :
                        req' = [req EXCEPT ![t] = WithBody(@, k, b[1], b[2], DefaultSubset)]
    /\ UNCHANGED <<users_by_id, sessions, change, touched>>

\* self.db.lock().
Acquire(t, op, next) ==
    /\ At(t, op, "lock")
    /\ LockFree
    /\ lock' = t
    /\ Goto(t, next)
    /\ UNCHANGED <<users_by_id, sessions, req, change, touched>>

RequireAdmin(t, op, next) ==
    /\ At(t, op, "entry")
    /\ IF req[t].caller.permissions.admin_users THEN Goto(t, next) /\ UNCHANGED lock
       ELSE Return(t, Err("Unauthenticated", "must have admin_users permission"))
    /\ UNCHANGED <<users_by_id, sessions, req, change, touched>>

\* RequireSameOrAdmin with the user looked up first.
RequireSameOrAdminOfKnown(t, op, next) ==
    /\ At(t, op, "entry")
    /\ IF req[t].id \notin DOMAIN users_by_id
       THEN Return(t, Err("NotFound", "can't find requested user"))
       ELSE IF require_same_or_admin(req[t].caller, req[t].id)
       THEN Goto(t, next) /\ UNCHANGED lock
       ELSE Return(t, Err("Unauthenticated", "must be same user or have admin_users"))
    /\ UNCHANGED <<users_by_id, sessions, req, change, touched>>
RequireSameOrAdmin(t, op, next) ==
    /\ At(t, op, "entry")
    /\ IF require_same_or_admin(req[t].caller, req[t].id)
       THEN Goto(t, next) /\ UNCHANGED lock
       ELSE Return(t, Err("Unauthenticated", "must be same user or have admin_users"))
    /\ UNCHANGED <<users_by_id, sessions, req, change, touched>>

\* get_users.
GetUsersAuth(t) == RequireAdmin(t, "LIST", "lock")
GetUsersLock(t) == Acquire(t, "LIST", "serve")
GetUsersServe(t) ==
    /\ At(t, "LIST", "serve")
    /\ Return(t, Ok({[id |-> i, user |-> Projection(users_by_id[i])] :
                        i \in DOMAIN users_by_id}))
    /\ UNCHANGED <<users_by_id, sessions, req, change, touched>>

\* get_user.
GetUserAuth(t) == RequireSameOrAdmin(t, "GET", "lock")
GetUserLock(t) == Acquire(t, "GET", "serve")
GetUserServe(t) ==
    /\ At(t, "GET", "serve")
    /\ IF req[t].id \in DOMAIN users_by_id
       THEN Return(t, Ok({Projection(users_by_id[req[t].id])}))
       ELSE Return(t, Err("NotFound", "can't find requested user"))
    /\ UNCHANGED <<users_by_id, sessions, req, change, touched>>

\* post_users.
PostUsersAuth(t) == RequireAdmin(t, "POST", "body")
PostUsersParse(t, bodies) == ParseBody(t, "POST", "build", bodies)
PostUsersChange(t) ==
    /\ At(t, "POST", "build")
    /\ LET b == PostUsersBuild(req[t])
       IN  IF IsErr(b.resp)
           THEN Return(t, b.resp) /\ UNCHANGED change
           ELSE /\ change' = [change EXCEPT ![t] = b.change]
                /\ Goto(t, "lock") /\ UNCHANGED lock
    /\ UNCHANGED <<users_by_id, sessions, req, touched>>
PostUsersLock(t) == Acquire(t, "POST", "apply")
PostUsersApply(t) ==
    /\ At(t, "POST", "apply")
    /\ NextId(users_by_id) <= MaxId
    /\ LET a == apply_user_change(users_by_id, change[t])
       IN  /\ Commit(a.users)
           /\ touched' = [touched EXCEPT ![t] = a.ok]
           /\ Return(t, IF a.ok THEN Ok({[id |-> a.id]})
                        ELSE Err("StoreError", "apply_user_change"))
    /\ UNCHANGED <<req, change>>

\* delete_user.
DeleteUserAuth(t) == RequireAdmin(t, "DELETE", "body")
DeleteUserParse(t, bodies) == ParseBody(t, "DELETE", "csrf", bodies)
DeleteUserCsrf(t) ==
    /\ At(t, "DELETE", "csrf")
    /\ IF require_csrf_if_session(req[t].caller, req[t].csrf)
       THEN Goto(t, "lock") /\ UNCHANGED lock
       ELSE Return(t, Err("Unauthenticated", "csrf"))
    /\ UNCHANGED <<users_by_id, sessions, req, change, touched>>
DeleteUserLock(t) == Acquire(t, "DELETE", "apply")
DeleteUserApply(t) ==
    /\ At(t, "DELETE", "apply")
    /\ LET d == delete_user(users_by_id, req[t].id)
       IN  /\ Commit(d.users)
           /\ touched' = [touched EXCEPT ![t] = d.ok]
           /\ Return(t, IF d.ok THEN Ok({}) ELSE Err("NotFound", "delete_user"))
    /\ UNCHANGED <<req, change>>

\* patch_user.
PatchUserAuth(t) == RequireSameOrAdmin(t, "PATCH", "body")
PatchUserParse(t, bodies) == ParseBody(t, "PATCH", "lock", bodies)
PatchUserLock(t) == Acquire(t, "PATCH", "check")
PatchUserCheck(t) ==
    /\ At(t, "PATCH", "check")
    /\ LET r == PatchChecks(users_by_id, req[t])
       IN  IF IsErr(r) THEN Return(t, r) ELSE Goto(t, "update") /\ UNCHANGED lock
    /\ UNCHANGED <<users_by_id, sessions, req, change, touched>>
PatchUserUpdate(t) ==
    /\ At(t, "PATCH", "update")
    /\ req[t].id \in DOMAIN users_by_id
    /\ LET u == PatchUpdate(users_by_id, req[t])
       IN  /\ Commit(u.users)
           /\ touched' = [touched EXCEPT ![t] = u.wrote]
           /\ Return(t, u.resp)
    /\ UNCHANGED <<req, change>>

Step(t, bodies) ==
    \/ GetUsersAuth(t) \/ GetUsersLock(t) \/ GetUsersServe(t)
    \/ GetUserAuth(t) \/ GetUserLock(t) \/ GetUserServe(t)
    \/ PostUsersAuth(t) \/ PostUsersParse(t, bodies) \/ PostUsersChange(t)
    \/ PostUsersLock(t) \/ PostUsersApply(t)
    \/ DeleteUserAuth(t) \/ DeleteUserParse(t, bodies) \/ DeleteUserCsrf(t)
    \/ DeleteUserLock(t) \/ DeleteUserApply(t)
    \/ PatchUserAuth(t) \/ PatchUserParse(t, bodies) \/ PatchUserLock(t)
    \/ PatchUserCheck(t) \/ PatchUserUpdate(t)

\* Service::users / Service::user: a request of some caller arrives and is
\* dispatched on its method.
Arrive(t, callers, ids) ==
    \E op \in {"LIST", "GET", "POST", "DELETE", "PATCH"}, c \in callers, i \in ids :
        /\ pc[t] = "idle"
        /\ req' = [req EXCEPT ![t] = Request(op, c, i, None, None, None, DefaultSubset)]
        /\ Goto(t, "entry")
        /\ UNCHANGED <<users_by_id, sessions, lock, change, touched>>

----------------------------------------------------------------------------
\* The steps of the login subcommand.

\* run returns; `l`, the lock guard of line 71, is dropped.
LoginReturn(kind, msg, stdout) ==
    /\ lpc' = "done"
    /\ status' = [kind |-> kind, msg |-> msg, stdout |-> stdout]
    /\ lock' = NoTask

\* main: the command is started with some arguments.
LoginStart ==
    /\ lpc = "idle"
    /\ \E n \in LoginNames, p \in Option(Permissions), d \in Option(LoginDomains),
          j \in Option(Paths), fs \in FlagLists :
            args' = Args(n, p, d, j, fs)
    /\ lpc' = "lock"
    /\ UNCHANGED <<users_by_id, lock, pc, req, resp, change, touched>>
    /\ UNCHANGED <<sessions, files, locals, status, at_issuance>>

\* run, lines 68-71: the database is opened and locked.
LoginLock ==
    /\ lpc = "lock"
    /\ LockFree
    /\ lock' = LoginTask
    /\ lpc' = "get_user"
    /\ UNCHANGED <<users_by_id, pc, req, resp, change, touched>>
    /\ UNCHANGED <<sessions, files, args, locals, status, at_issuance>>

\* run, lines 72-88: the user is looked up; permissions and flags are worked
\* out.
LoginGetUser ==
    /\ lpc = "get_user"
    /\ LET u == get_user(users_by_id, args.username)
       IN  IF u = None
           THEN LoginReturn("Err", "no such user", <<>>) /\ UNCHANGED locals
           ELSE /\ locals' =
                     [locals EXCEPT
                        !.uid = Unwrap(u),
                        !.permissions =
                            IF args.permissions /= None THEN Unwrap(args.permissions)
                            ELSE users_by_id[Unwrap(u)].permissions,
                        !.flags = FoldFlags(0, args.session_flags)]
                /\ lpc' = "make_session"
                /\ UNCHANGED <<lock, status>>
    /\ at_issuance' = users_by_id
    /\ UNCHANGED <<users_by_id, pc, req, resp, change, touched>>
    /\ UNCHANGED <<sessions, files, args>>

\* run, lines 89-98: the session is made and its id encoded.
LoginMakeSession ==
    /\ lpc = "make_session"
    /\ LET m == make_session(sessions, locals.uid, args.domain, locals.flags,
                             locals.permissions)
       IN  /\ sessions' = m.sessions
           /\ locals' = [locals EXCEPT !.sid = m.sid, !.encoded = Encode(m.sid)]
    /\ lpc' = "output"
    /\ UNCHANGED <<users_by_id, lock, pc, req, resp, change, touched>>
    /\ UNCHANGED <<files, args, status, at_issuance>>

\* LoginOutput creating the cookie-jar file before it asks for the domain.
LoginOutputFileFirst ==
    /\ lpc = "output"
    /\ IF args.curl_cookie_jar = None
       THEN LoginReturn("Ok", "", <<"s", "=">> \o locals.encoded) /\ UNCHANGED files
       ELSE IF Unwrap(args.curl_cookie_jar) \in DOMAIN files
       THEN LoginReturn("Err", "Unable to open", <<>>) /\ UNCHANGED files
       ELSE IF args.domain = None
       THEN /\ LoginReturn("Err", "--curl-cookie-jar requires --domain", <<>>)
            /\ files' = files @@ (Unwrap(args.curl_cookie_jar) :> <<>>)
       ELSE lpc' = "open" /\ UNCHANGED <<lock, status, files>>
    /\ UNCHANGED <<users_by_id, pc, req, resp, change, touched>>
    /\ UNCHANGED <<sessions, args, locals, at_issuance>>
\* run, lines 100-104 and 121-124: without a cookie jar the cookie is printed;
\* a cookie jar requires a domain.
LoginOutput ==
    /\ lpc = "output"
    /\ IF args.curl_cookie_jar = None
       THEN LoginReturn("Ok", "", <<"s", "=">> \o locals.encoded)
       ELSE IF args.domain = None
       THEN LoginReturn("Err", "--curl-cookie-jar requires --domain", <<>>)
       ELSE lpc' = "open" /\ UNCHANGED <<lock, status>>
    /\ UNCHANGED <<users_by_id, pc, req, resp, change, touched>>
    /\ UNCHANGED <<sessions, files, args, locals, at_issuance>>

\* run, lines 105-110: the file is created, unless it exists.
LoginOpen ==
    /\ lpc = "open"
    /\ LET p == Unwrap(args.curl_cookie_jar)
       IN  IF p \in DOMAIN files
           THEN LoginReturn("Err", "Unable to open", <<>>) /\ UNCHANGED files
           ELSE /\ files' = files @@ (p :> <<>>)
                /\ lpc' = "write"
                /\ UNCHANGED <<lock, status>>
    /\ UNCHANGED <<users_by_id, pc, req, resp, change, touched>>
    /\ UNCHANGED <<sessions, args, locals, at_issuance>>

\* run, lines 111-124: the cookie line is written, or the write fails.
LoginWrite ==
    /\ lpc = "write"
    /\ \/ /\ files' = [files EXCEPT ![Unwrap(args.curl_cookie_jar)] =
                          curl_cookie(locals.encoded, locals.flags, Unwrap(args.domain))]
          /\ LoginReturn("Ok", "", <<"W", "r", "o", "t", "e">>)
       \/ /\ LoginReturn("Err", "write", <<>>)
          /\ UNCHANGED files
    /\ UNCHANGED <<users_by_id, pc, req, resp, change, touched>>
    /\ UNCHANGED <<sessions, args, locals, at_issuance>>

Login ==
    \/ LoginStart \/ LoginLock \/ LoginGetUser \/ LoginMakeSession
    \/ LoginOutput \/ LoginOpen \/ LoginWrite

\* One request served by one task.
Next == Arrive("t1", Callers, Ids) \/ Step("t1", FullBodies)
Spec == Init /\ [][Next]_vars

\* Two requests served by two tasks that share the database.
NextConc == \E t \in Tasks : Arrive(t, ConcCallers, ConcIds) \/ Step(t, ConcBodies)
SpecConc == Init /\ [][NextConc]_vars

\* One request of the later schema served by one task.
NextLater == Arrive("t1", ConcCallers, ConcIds) \/ Step("t1", LaterBodies)
SpecLater == Init /\ [][NextLater]_vars

\* One run of the login command, and one request served on the same store.
NextLogin == Login \/ Arrive("t1", ConcCallers, ConcIds) \/ Step("t1", LoginBodies)
SpecLogin == Init /\ [][NextLogin]_vars

----------------------------------------------------------------------------
\* Properties.  In Spec the store a request meets is InitUsers.

Done(t) == pc[t] = "done"
Admin(t) == req[t].caller.permissions.admin_users
IsPatch(t) == req[t].op = "PATCH" /\ req[t].id \in DOMAIN InitUsers
Target(t) == InitUsers[req[t].id]
StoreUntouched(t) == users_by_id = InitUsers /\ ~touched[t]

\* The password a stored hash was made from, as a precondition would name it.
StoredPassword(u) ==
    IF u.password_hash = None THEN None ELSE Some(Unwrap(u.password_hash).scrypt)
\* The fields of subset s that are present and differ from user u.
Differing(u, s) ==
    {f \in Present(s) :
        \/ f = "disabled" /\ s.disabled /= Some(u.disabled)
        \/ f = "username" /\ s.username /= Some(u.username)
        \/ f = "preferences" /\ s.preferences /= Some(u.preferences)
        \/ f = "password" /\ s.password /= Some(StoredPassword(u))
        \/ f = "permissions" /\ s.permissions /= Some(u.permissions)}
PreconditionDiffers(t) ==
    /\ IsPatch(t) /\ req[t].precondition /= None
    /\ Differing(Target(t), Unwrap(req[t].precondition)) /= {}
UpdateFields(t) == IF req[t].update = None THEN {} ELSE Present(Unwrap(req[t].update))
PreconditionFields(t) ==
    IF req[t].precondition = None THEN {} ELSE Present(Unwrap(req[t].precondition))
\* The request presents the token of the caller's session, if it has one.
CsrfValid(t) == req[t].caller.session = None \/ req[t].csrf = req[t].caller.session
\* A password change a caller without admin_users has not backed with the
\* previous password.
PasswordUnproven(t) ==
    /\ "password" \in UpdateFields(t) /\ "password" \notin PreconditionFields(t)
    /\ ~Admin(t)

\* C1 as stated: a Patch whose precondition has a present field that differs
\* from the target fails with FailedPrecondition and modifies nothing.
C1_AsStated ==
    \A t \in Tasks : Done(t) /\ PreconditionDiffers(t) =>
        resp[t].kind = "FailedPrecondition" /\ StoreUntouched(t)
\* C1 amended: such a Patch always fails and modifies nothing; the error is
\* Unauthenticated when the password-change rule or the CSRF check rejects
\* the request first, and FailedPrecondition otherwise.
C1_PreconditionAllOrNothing ==
    \A t \in Tasks : Done(t) /\ PreconditionDiffers(t) =>
        /\ StoreUntouched(t)
        /\ resp[t].kind =
              IF PasswordUnproven(t) \/ ~CsrfValid(t) THEN "Unauthenticated"
              ELSE "FailedPrecondition"
\* An administrator's Patch with an update to apply is refused on its
\* precondition.
C1_Witness ==
    \E t \in Tasks :
        /\ Done(t) /\ PreconditionDiffers(t) /\ Admin(t)
        /\ "username" \in UpdateFields(t)
        /\ Differing(Target(t), Unwrap(req[t].update)) /= {}
        /\ resp[t].kind = "FailedPrecondition"

SelfServiceFields == {"preferences", "password"}
AdminFields == {"disabled", "username", "permissions"}
\* Task t serves a Patch of a caller without admin_users on its own record.
SelfPatch(t) == IsPatch(t) /\ ~Admin(t) /\ req[t].caller.user = Some(req[t].id)
\* The record the self-service fields of t's update leave behind.
SelfServiced(t) ==
    LET upd == Unwrap(req[t].update)
    IN  [Target(t) EXCEPT
            !.preferences = IF upd.preferences = None THEN @ ELSE Unwrap(upd.preferences),
            !.password_hash =
                IF upd.password = None THEN @
                ELSE IF upd.password = Some(None) THEN None
                ELSE Some(Hash(Unwrap(Unwrap(upd.password))))]
SelfServiceOnly(t) ==
    /\ SelfPatch(t)
    /\ UpdateFields(t) /= {} /\ UpdateFields(t) \subseteq SelfServiceFields
    /\ CsrfValid(t) /\ ~PreconditionDiffers(t)

\* C3 as stated: a self-patch of preferences and/or password by a caller
\* without admin_users, with a valid CSRF token and no differing precondition
\* field, succeeds and is committed.
C3_AsStated ==
    \A t \in Tasks : Done(t) /\ SelfServiceOnly(t) =>
        /\ resp[t].kind = "Ok"
        /\ users_by_id = [InitUsers EXCEPT ![req[t].id] = SelfServiced(t)]
\* C3 amended: it does so when a password change comes with the previous
\* password in the precondition; preferences alone need no precondition.
C3_SelfServiceNeedsNoAdmin ==
    \A t \in Tasks :
        Done(t) /\ SelfServiceOnly(t)
        /\ ("password" \in UpdateFields(t) => "password" \in PreconditionFields(t)) =>
            /\ resp[t].kind = "Ok"
            /\ users_by_id = [InitUsers EXCEPT ![req[t].id] = SelfServiced(t)]
\* A session user without admin_users has replaced its own password.
C3_Witness ==
    \E t \in Tasks :
        /\ Done(t) /\ SelfServiceOnly(t) /\ req[t].caller.session /= None
        /\ Unwrap(req[t].update).password = Some(Some("q"))
        /\ resp[t].kind = "Ok"
        /\ users_by_id[req[t].id].password_hash = Some(Hash("q"))

\* Task t serves a Patch of a caller without admin_users that names a field
\* only an administrator may change.
AdminFieldByNonAdmin(t) ==
    req[t].op = "PATCH" /\ ~Admin(t) /\ UpdateFields(t) \cap AdminFields /= {}
\* The checks that come before the precondition phase let t's request pass.
PassesEarlyChecks(t) == ~PasswordUnproven(t) /\ CsrfValid(t)

\* C4 as stated: such a Patch fails with Unauthenticated and changes nothing.
C4_AsStated ==
    \A t \in Tasks : Done(t) /\ AdminFieldByNonAdmin(t) =>
        resp[t].kind = "Unauthenticated" /\ StoreUntouched(t)
\* C4 amended: such a Patch fails and changes nothing, self-service fields of
\* the same update included; the error is Unauthenticated unless the request
\* reaches the precondition phase with a differing field, which gives
\* FailedPrecondition.
C4_AdminFieldsNeedAdmin ==
    \A t \in Tasks : Done(t) /\ AdminFieldByNonAdmin(t) =>
        /\ StoreUntouched(t)
        /\ resp[t].kind =
              IF PassesEarlyChecks(t) /\ PreconditionDiffers(t)
              THEN "FailedPrecondition" ELSE "Unauthenticated"
\* A self-patch naming preferences and disabled is refused by the admin check.
C4_Witness ==
    \E t \in Tasks :
        /\ Done(t) /\ AdminFieldByNonAdmin(t)
        /\ UpdateFields(t) = {"preferences", "disabled"}
        /\ Unwrap(req[t].update).preferences /= Some(Target(t).preferences)
        /\ resp[t] = Err("Unauthenticated", "must have admin_users permission")

\* Task t serves a Patch that sets or clears the password.
PasswordChange(t) == IsPatch(t) /\ "password" \in UpdateFields(t)
\* The precondition of t's request names a password that is not the target's.
WrongPassword(t) ==
    /\ "password" \in PreconditionFields(t)
    /\ Unwrap(req[t].precondition).password /= Some(StoredPassword(Target(t)))
PasswordKept(t) == users_by_id[req[t].id].password_hash = Target(t).password_hash
\* An administrator changes a password, and nothing else, with no precondition.
AdminPasswordReset(t) ==
    /\ PasswordChange(t) /\ Admin(t) /\ CsrfValid(t)
    /\ UpdateFields(t) = {"password"} /\ PreconditionFields(t) = {}

Mutating(t) == req[t].op \in {"POST", "DELETE", "PATCH"}
\* The caller of t's request came in on a session whose token the request
\* does not present.
CsrfMissing(t) ==
    req[t].caller.session /= None /\ req[t].csrf /= req[t].caller.session
\* The responses of the checks that patch_user runs after line 158 in the
\* claim's order: password-change rule, precondition phase, admin check.
PasswordRuleResp == Err("Unauthenticated", "must supply previous password or have admin_users")
AdminCheckResp == Err("Unauthenticated", "must have admin_users permission")
FieldCheckResps ==
    {PasswordRuleResp, AdminCheckResp}
    \cup {Err("FailedPrecondition", f) : f \in FieldNames}
    \cup {Err("Unimplemented", "preconditions not supported"),
          Err("Unimplemented", "updates not supported")}

\* C6: a Patch of a session caller whose body lacks the session's CSRF token
\* is rejected by the CSRF check, never by the password-change rule, the
\* precondition phase or the field-level admin check; a Create or Delete of
\* that kind is rejected before its fields are looked at.
C6_CsrfBeforeFieldChecks ==
    \A t \in Tasks : Done(t) /\ Mutating(t) /\ CsrfMissing(t) =>
        /\ IsErr(resp[t])
        /\ req[t].op = "PATCH" => resp[t] \notin FieldCheckResps
        /\ req[t].op = "POST" => resp[t].kind \notin {"Unimplemented", "StoreError"}
                                 /\ resp[t].msg /= "username must be specified"

\* C7: a Create, Delete or Patch of a session caller that does not present
\* the session's CSRF token fails and leaves the store as it was, whatever
\* the caller's permissions; a caller without a session is never refused for
\* its token.
C7_CsrfRequiredIfSession ==
    \A t \in Tasks : Done(t) /\ Mutating(t) =>
        /\ CsrfMissing(t) => IsErr(resp[t]) /\ StoreUntouched(t)
        /\ req[t].caller.session = None => resp[t].msg /= "csrf"
\* An administrator's session sends a Patch that would apply, with the wrong
\* token, and is refused for it.
C7_Witness ==
    \E t \in Tasks :
        /\ Done(t) /\ IsPatch(t) /\ Admin(t) /\ CsrfMissing(t)
        /\ req[t].csrf /= None /\ UpdateFields(t) = {"disabled"}
        /\ ~PreconditionDiffers(t)
        /\ resp[t] = Err("Unauthenticated", "csrf")

\* C9: Fetch returns a record only to the user it describes or to a caller
\* with admin_users, List only to a caller with admin_users; everyone else
\* gets Unauthenticated and no record data.
MayFetch(t) == req[t].caller.user = Some(req[t].id) \/ Admin(t)
C9_ReadsAreAuthorized ==
    \A t \in Tasks : Done(t) =>
        /\ req[t].op = "GET" =>
              IF MayFetch(t)
              THEN resp[t].body /= {} => resp[t].body = {Projection(users_by_id[req[t].id])}
              ELSE resp[t].kind = "Unauthenticated" /\ resp[t].body = {}
        /\ req[t].op = "LIST" =>
              IF Admin(t) THEN resp[t].kind = "Ok"
              ELSE resp[t].kind = "Unauthenticated" /\ resp[t].body = {}
        /\ req[t].op \notin {"GET", "LIST"} =>
              \A b \in resp[t].body : DOMAIN b = {"id"}
\* A user without admin_users has fetched its own record.
C9_Witness ==
    \E t \in Tasks :
        /\ Done(t) /\ req[t].op = "GET" /\ ~Admin(t)
        /\ req[t].id \in DOMAIN InitUsers
        /\ resp[t] = Ok({Projection(InitUsers[req[t].id])})

\* C10 as stated: a Create, Delete or Patch that returns an error leaves the
\* store as it was, and a Patch without admin_users that has a differing
\* precondition field and an admin-only update field fails with
\* FailedPrecondition.
C10_AsStated ==
    \A t \in Tasks : Done(t) /\ Mutating(t) =>
        /\ IsErr(resp[t]) => StoreUntouched(t)
        /\ AdminFieldByNonAdmin(t) /\ PreconditionDiffers(t) =>
              resp[t].kind = "FailedPrecondition"
\* C10 amended: the second half holds of a request that gets as far as the
\* precondition phase, that is, one the password-change rule and the CSRF
\* check let through; otherwise the error is theirs, Unauthenticated.
C10_FailFastNoPartialEffect ==
    \A t \in Tasks : Done(t) /\ Mutating(t) =>
        /\ IsErr(resp[t]) => StoreUntouched(t)
        /\ AdminFieldByNonAdmin(t) /\ PreconditionDiffers(t) =>
              IF PassesEarlyChecks(t)
              THEN resp[t].kind = "FailedPrecondition"
              ELSE resp[t].kind = "Unauthenticated" /\ resp[t] /= AdminCheckResp
\* A self-patch with a differing precondition and an admin-only update field
\* is refused on the precondition.
C10_Witness ==
    \E t \in Tasks :
        /\ Done(t) /\ AdminFieldByNonAdmin(t) /\ PreconditionDiffers(t)
        /\ resp[t].kind = "FailedPrecondition" /\ StoreUntouched(t)

\* The record t's update asks for: every field the update names has the
\* value it names, every other field the value the target had.
Patched(t) ==
    LET upd == Unwrap(req[t].update)
    IN  [SelfServiced(t) EXCEPT
            !.username = IF upd.username = None THEN @ ELSE Unwrap(upd.username),
            !.disabled = IF upd.disabled = None THEN @ ELSE Unwrap(upd.disabled),
            !.permissions = IF upd.permissions = None THEN @ ELSE Unwrap(upd.permissions)]

\* C16: after a successful Patch the target has, under the id it had, the
\* value of the update in every field the update names and its old value in
\* every other field; no other user has changed, none was added or removed;
\* a Patch without an update leaves the store as it was.
C16_PatchFrame ==
    \A t \in Tasks : Done(t) /\ IsPatch(t) /\ resp[t].kind = "Ok" =>
        IF req[t].update = None THEN StoreUntouched(t)
        ELSE users_by_id = [InitUsers EXCEPT ![req[t].id] = Patched(t)]
\* An administrator has renamed bob and nothing else: bob is still disabled,
\* an administrator and without a password.
C16_Witness ==
    \E t \in Tasks :
        /\ Done(t) /\ IsPatch(t) /\ resp[t].kind = "Ok" /\ req[t].id = 2
        /\ UpdateFields(t) = {"username"}
        /\ users_by_id[2] = [InitUsers[2] EXCEPT !.username = "carol"]
        /\ users_by_id[1] = InitUsers[1]

\* Task t serves a Create of a caller with admin_users whose body was parsed.
AdminCreate(t) ==
    req[t].op = "POST" /\ Admin(t) /\ resp[t].msg /= "bad request body"
CreateFields == {"username", "password", "preferences", "permissions"}
\* The Create of t names a user and carries a field Create does not apply.
OtherFieldCreate(t) ==
    /\ "username" \in Present(req[t].user)
    /\ ~(Present(req[t].user) \subseteq CreateFields)
\* The store after the Create of t has added its user under id i.
Created(t, i) ==
    /\ i \notin DOMAIN InitUsers
    /\ DOMAIN users_by_id = DOMAIN InitUsers \cup {i}
    /\ \A j \in DOMAIN InitUsers : users_by_id[j] = InitUsers[j]
    /\ LET u == req[t].user
       IN  /\ Some(users_by_id[i].username) = u.username
           /\ u.preferences /= None => Some(users_by_id[i].preferences) = u.preferences
           /\ u.permissions /= None => Some(users_by_id[i].permissions) = u.permissions
           /\ users_by_id[i].password_hash =
                 IF u.password = None \/ u.password = Some(None) THEN None
                 ELSE Some(Hash(Unwrap(Unwrap(u.password))))
           /\ ~users_by_id[i].disabled

\* C18 as stated: an administrator's Create without a username fails with
\* InvalidArgument, one that names a user and carries a field other than
\* username, password, preferences and permissions fails with Unimplemented,
\* in both cases with the store as it was; a Create that succeeds has added
\* exactly one user, with the fields requested, and returns its id.
C18_AsStated ==
    \A t \in Tasks : Done(t) /\ AdminCreate(t) =>
        /\ req[t].user.username = None =>
              resp[t].kind = "InvalidArgument" /\ StoreUntouched(t)
        /\ OtherFieldCreate(t) =>
              resp[t].kind = "Unimplemented" /\ StoreUntouched(t)
        /\ resp[t].kind = "Ok" =>
              \E i \in Ids : Created(t, i) /\ resp[t].body = {[id |-> i]}
\* C18 amended: these are the errors of a Create that presents the CSRF token
\* of its session, if it has one; without the token the Create fails with
\* Unauthenticated, the store again as it was.
C18_CreateFields ==
    \A t \in Tasks : Done(t) /\ AdminCreate(t) =>
        /\ req[t].user.username = None \/ OtherFieldCreate(t) \/ ~CsrfValid(t) =>
              /\ StoreUntouched(t)
              /\ resp[t].kind =
                    IF ~CsrfValid(t) THEN "Unauthenticated"
                    ELSE IF req[t].user.username = None THEN "InvalidArgument"
                    ELSE "Unimplemented"
        /\ resp[t].kind = "Ok" =>
              \E i \in Ids : Created(t, i) /\ resp[t].body = {[id |-> i]}
\* An administrator's session, with its token, asks for a disabled user
\* carol and is refused.
C18_Witness ==
    \E t \in Tasks :
        /\ Done(t) /\ AdminCreate(t) /\ req[t].caller.session /= None /\ CsrfValid(t)
        /\ req[t].user.username = Some("carol") /\ req[t].user.disabled = Some(TRUE)
        /\ resp[t].kind = "Unimplemented" /\ StoreUntouched(t)

\* Task t takes the step that reads and parses its request body.
ParseStep(t) == pc[t] = "body" /\ pc'[t] /= "body"
\* Task t takes the step in which serve_json serializes its response.
SerializeStep(t) ==
    /\ pc[t] /= "done" /\ pc'[t] = "done"
    /\ req[t].op \in {"LIST", "GET", "POST"} /\ resp'[t].kind = "Ok"

\* C19: no handler reads or parses its request body, or serializes its
\* response, while it holds the database lock.
C19_LockOnlyAroundStore ==
    [][\A t \in Tasks : ParseStep(t) \/ SerializeStep(t) => lock /= t]_vars

\* The refusal of require_same_or_admin.
NotSameNorAdmin == Err("Unauthenticated", "must be same user or have admin_users")

\* C20: a Fetch or Patch of a caller that is neither the user named nor has
\* admin_users gets the same Unauthenticated response whether or not the id
\* is in the store, and NotFound goes only to a caller that is the user
\* named or has admin_users, for an id that is not in the store.
C20_AuthorizedBeforeLookup ==
    \A t \in Tasks : Done(t) /\ req[t].op \in {"GET", "PATCH"} =>
        /\ ~MayFetch(t) => resp[t] = NotSameNorAdmin
        /\ resp[t].kind = "NotFound" => MayFetch(t) /\ req[t].id \notin DOMAIN InitUsers
\* Alice asks for a user that does not exist and learns nothing about it.
C20_Witness ==
    \E t \in Tasks :
        /\ Done(t) /\ req[t].op = "GET" /\ req[t].caller.user = Some(1) /\ ~Admin(t)
        /\ req[t].id \notin DOMAIN users_by_id
        /\ resp[t] = NotSameNorAdmin

----------------------------------------------------------------------------
\* Properties of SpecLater, where a request may carry the field users.rs
\* does not know.

\* The place of a field in the order patch_user compares them in.
FieldRank(f) ==
    CASE f = "disabled" -> 1
      [] f = "username" -> 2
      [] f = "preferences" -> 3
      [] f = "password" -> 4
      [] f = "permissions" -> 5
FirstOf(S) == CHOOSE f \in S : \A g \in S : FieldRank(f) <= FieldRank(g)
ValveResp == Err("Unimplemented", "preconditions not supported")

\* C17: a FailedPrecondition names the first, in the order disabled,
\* username, preferences, password, permissions, of the present precondition
\* fields that differ from the target, and a request that passes the checks
\* before the precondition phase with such a field gets that error; the
\* Unimplemented of the precondition is returned only when the precondition
\* carries an unknown field and none of its known fields differs.
C17_FirstMismatchNamed ==
    \A t \in Tasks : Done(t) /\ IsPatch(t) /\ req[t].precondition /= None =>
        LET differing == Differing(Target(t), Unwrap(req[t].precondition))
        IN  /\ resp[t].kind = "FailedPrecondition" =>
                  differing /= {} /\ resp[t].msg = FirstOf(differing)
            /\ PassesEarlyChecks(t) /\ differing /= {} =>
                  resp[t] = Err("FailedPrecondition", FirstOf(differing))
            /\ resp[t] = ValveResp =>
                  differing = {} /\ "extra" \in PreconditionFields(t)
\* A precondition with an unknown field and two known fields that differ,
\* preferences and permissions, is refused on the preferences.
C17_Witness ==
    \E t \in Tasks :
        /\ Done(t) /\ IsPatch(t) /\ req[t].precondition /= None
        /\ "extra" \in PreconditionFields(t)
        /\ Differing(Target(t), Unwrap(req[t].precondition)) = {"preferences", "permissions"}
        /\ resp[t] = Err("FailedPrecondition", "preferences")

----------------------------------------------------------------------------
\* Properties of SpecConc, where two requests meet the store InitUsers.

\* Task t serves an authorized Patch that expects field f to have the value
\* it had before both requests and sets it to another one.
CompareAndSwap(t, f) ==
    /\ IsPatch(t) /\ (Admin(t) \/ (SelfPatch(t) /\ f \in SelfServiceFields))
    /\ f \in PreconditionFields(t) /\ f \in UpdateFields(t)
    /\ f \notin Differing(Target(t), Unwrap(req[t].precondition))
    /\ f \in Differing(Target(t), Unwrap(req[t].update))
Racing(f) ==
    /\ \A t \in Tasks : Done(t) /\ CompareAndSwap(t, f)
    /\ req["t1"].id = req["t2"].id

\* C2 as stated: of two concurrent compare-and-swap Patches of one field of
\* one user at most one succeeds, and the other fails with
\* FailedPrecondition.
C2_AsStated ==
    \A f \in FieldNames : Racing(f) =>
        \A t, u \in Tasks :
            t /= u /\ resp[t].kind = "Ok" => resp[u].kind = "FailedPrecondition"
\* C2 amended: at most one of them succeeds; the other fails, with
\* FailedPrecondition when it checked its precondition after the commit and
\* otherwise with the store's refusal of its own change (a username that is
\* taken).
C2_CheckAndCommitAtomic ==
    \A f \in FieldNames : Racing(f) =>
        \A t, u \in Tasks :
            t /= u /\ resp[t].kind = "Ok" =>
                \/ resp[u].kind = "FailedPrecondition"
                \/ f = "username" /\ resp[u].kind = "StoreError"
\* Two Patches raced for alice's password; one committed, the other was
\* refused on its precondition.
C2_Witness ==
    /\ Racing("password")
    /\ resp["t1"].kind = "Ok" /\ resp["t2"] = Err("FailedPrecondition", "password")
    /\ ~Admin("t1") /\ touched["t1"] /\ ~touched["t2"]

\* What only an administrator may change: who exists, and every user's
\* username, disabled flag and permissions.
AdminState(users) ==
    [i \in DOMAIN users |->
        [username |-> users[i].username, disabled |-> users[i].disabled,
         permissions |-> users[i].permissions]]
\* Every request that has arrived came from a caller without admin_users.
OnlyNonAdminTraffic == \A t \in Tasks : pc[t] = "idle" \/ ~Admin(t)

\* C8: while only callers without admin_users have sent requests, in any
\* interleaving, the set of user ids and every user's username, disabled
\* flag and permissions are those of the start.
C8_AdminStateInvariant ==
    OnlyNonAdminTraffic => AdminState(users_by_id) = AdminState(InitUsers)
\* Two callers without admin_users are done: one changed its preferences, the
\* other was refused the permissions it asked for.
C8_Witness ==
    /\ OnlyNonAdminTraffic /\ \A t \in Tasks : Done(t)
    /\ touched["t1"] /\ users_by_id[1].preferences /= InitUsers[1].preferences
    /\ UpdateFields("t2") = {"permissions"}
    /\ Unwrap(req["t2"].update).permissions = Some([admin_users |-> TRUE])
    /\ resp["t2"] = AdminCheckResp

\* tests::test_curl_cookie, for every flags value, domain and cookie value:
\* curl_cookie is called and its line kept in status.stdout.
FlagSets == 0..15
CookieValues == {Encode(n) : n \in 0..15}
InitCookie ==
    /\ users_by_id = InitUsers
    /\ lock = NoTask
    /\ pc = [t \in Tasks |-> "idle"]
    /\ req = [t \in Tasks |-> NoReq]
    /\ resp = [t \in Tasks |-> NoResp]
    /\ change = [t \in Tasks |-> NoChange]
    /\ touched = [t \in Tasks |-> FALSE]
    /\ sessions = InitSessions
    /\ files = InitFiles
    /\ lpc = "test"
    /\ \E d \in Domains : args = Args("", None, Some(d), None, <<>>)
    /\ \E F \in FlagSets, v \in CookieValues :
          locals = [NoLocals EXCEPT !.flags = F, !.encoded = v]
    /\ status = NoStatus
    /\ at_issuance = <<>>
test_curl_cookie ==
    /\ lpc = "test"
    /\ lpc' = "done"
    /\ status' = [kind |-> "Ok", msg |-> "",
                  stdout |-> curl_cookie(locals.encoded, locals.flags, Unwrap(args.domain))]
    /\ UNCHANGED <<users_by_id, lock, pc, req, resp, change, touched>>
    /\ UNCHANGED <<sessions, files, args, locals, at_issuance>>
NextCookie == test_curl_cookie
SpecCookie == InitCookie /\ [][NextCookie]_vars

----------------------------------------------------------------------------
\* Properties of SpecCookie.

\* The columns of a line: what stands between its tabs.
RECURSIVE Columns(_)
Columns(line) ==
    IF \A i \in DOMAIN line : line[i] /= Tab THEN <<line>>
    ELSE LET i == CHOOSE j \in DOMAIN line :
                      line[j] = Tab /\ \A k \in 1..(j - 1) : line[k] /= Tab
         IN  <<SubSeq(line, 1, i - 1)>> \o Columns(SubSeq(line, i + 1, Len(line)))
HasBit(F, bit) == (F \div bit) % 2 = 1
HttpOnlyMarker == <<"#", "H", "t", "t", "p", "O", "n", "l", "y", "_">>
ColumnTrue == <<"T", "R", "U", "E">>
ColumnFalse == <<"F", "A", "L", "S", "E">>
CurlOffTMax ==
    <<"9", "2", "2", "3", "3", "7", "2", "0", "3", "6", "8", "5", "4", "7", "7",
      "5", "8", "0", "7">>
\* F and G are the same but for the SameSite and SameSiteStrict bits.
SameButSameSite(F, G) == HasBit(F, 1) = HasBit(G, 1) /\ HasBit(F, 2) = HasBit(G, 2)

\* C13: for every flags value, domain and cookie value (neither of which
\* holds a tab) the line curl_cookie makes has exactly seven tab-separated
\* columns: the domain, with #HttpOnly_
\* put before it iff the HttpOnly bit is set; FALSE; /; TRUE iff the Secure
\* bit is set and FALSE otherwise; 9223372036854775807; s; the value.  Flags
\* that differ in the SameSite and SameSiteStrict bits only give the same line.
C13_CookieJarLine ==
    lpc = "done" =>
        LET cols == Columns(status.stdout)
            d == Unwrap(args.domain)
        IN  /\ Len(cols) = 7
            /\ cols[1] = IF HasBit(locals.flags, 1) THEN HttpOnlyMarker \o d ELSE d
            /\ cols[2] = ColumnFalse
            /\ cols[3] = <<"/">>
            /\ cols[4] = IF HasBit(locals.flags, 2) THEN ColumnTrue ELSE ColumnFalse
            /\ cols[5] = CurlOffTMax
            /\ cols[6] = <<"s">>
            /\ cols[7] = locals.encoded
            /\ \A G \in FlagSets : SameButSameSite(locals.flags, G) =>
                  curl_cookie(locals.encoded, G, d) = status.stdout
\* The line of a cookie that is HttpOnly, SameSite and SameSiteStrict, but
\* not Secure, for a domain of two characters.
C13_Witness ==
    /\ lpc = "done" /\ locals.flags = 13 /\ Len(Unwrap(args.domain)) = 2
    /\ SubSeq(status.stdout, 1, 10) = HttpOnlyMarker
    /\ Columns(status.stdout)[4] = ColumnFalse

----------------------------------------------------------------------------
\* Properties of SpecLogin: one run of the login command on a store that one
\* request is served on, before, during or after the run.

\* run has made its session.
Issued == locals.sid /= 0
\* The usernames of the store as run found it.
NamesAtIssuance == {at_issuance[i].username : i \in DOMAIN at_issuance}
\* The flags bitmask that has the bit of every requested flag and no other.
RECURSIVE SumBits(_)
SumBits(F) ==
    IF F = {} THEN 0
    ELSE LET f == CHOOSE g \in F : TRUE IN FlagBit(f) + SumBits(F \ {f})
Requested == {args.session_flags[i] : i \in DOMAIN args.session_flags}

\* C11: a run for a user of the store adds exactly one session to the session
\* store, under an id that was not in use; its user_id is the id of the user
\* named, its permissions are the override when one is given and otherwise
\* the user's permissions at the time of the run, and its flags are the
\* bitwise OR of the requested flags.  A run for a username that is not in
\* the store returns an error and adds no session.
C11_SessionIssuance ==
    /\ Issued =>
          /\ locals.sid \notin DOMAIN InitSessions
          /\ DOMAIN sessions = DOMAIN InitSessions \cup {locals.sid}
          /\ \A i \in DOMAIN InitSessions : sessions[i] = InitSessions[i]
          /\ LET s == sessions[locals.sid]
             IN  /\ s.user_id \in DOMAIN at_issuance
                 /\ at_issuance[s.user_id].username = args.username
                 /\ s.permissions =
                       IF args.permissions /= None THEN Unwrap(args.permissions)
                       ELSE at_issuance[s.user_id].permissions
                 /\ s.flags = SumBits(Requested)
    /\ lpc = "done" /\ args.username \notin NamesAtIssuance =>
          /\ status.kind = "Err"
          /\ sessions = InitSessions
\* A session was made for alice, without an override, after a Patch had made
\* her an administrator; Secure was requested twice.
C11_Witness ==
    /\ Issued /\ args.username = "alice" /\ args.permissions = None
    /\ args.session_flags = <<"Secure", "Secure">>
    /\ sessions[locals.sid].flags = 2
    /\ sessions[locals.sid].permissions.admin_users
    /\ ~InitUsers[1].permissions.admin_users

JarWithoutDomain == args.curl_cookie_jar /= None /\ args.domain = None

\* C14: a run with a cookie-jar path and no domain never reaches the creation
\* of the file and leaves the file system as it was; it returns an error,
\* which is the usage error whenever the user exists.
C14_JarRequiresDomain ==
    JarWithoutDomain =>
        /\ lpc \notin {"open", "write"}
        /\ files = InitFiles
        /\ lpc = "done" =>
              /\ status.kind = "Err"
              /\ args.username \in NamesAtIssuance =>
                    status.msg = "--curl-cookie-jar requires --domain"
\* The run for alice was refused a cookie jar at a free path.
C14_Witness ==
    /\ lpc = "done" /\ JarWithoutDomain /\ args.username = "alice"
    /\ Unwrap(args.curl_cookie_jar) \notin DOMAIN InitFiles
    /\ status.msg = "--curl-cookie-jar requires --domain"

\* C15: a run that returns an error (unknown username, cookie-jar path
\* without a domain, cookie-jar file that cannot be newly created) leaves in
\* the session store the sessions that were there before, and no other.
C15_NoSessionOnError ==
    lpc = "done" /\ status.kind = "Err" => sessions = InitSessions

====
